---------------------------- MODULE Spec2Model ----------------------------
(* File-metadata microservice (index.js): an Express server that loads    *)
(* the 'file-type' module, registers POST /api/fileanalyse behind the     *)
(* Multer upload.single('upfile') middleware, registers an error-handling *)
(* middleware and only then listens.  The model covers the start-up       *)
(* sequence and the life of a bounded number of concurrent upload         *)
(* requests, including the suspension of the handler at its await.        *)
EXTENDS Integers, Sequences, FiniteSets

(* ---------------------------------------------------------------------- *)
(* Bounds                                                                 *)
(* ---------------------------------------------------------------------- *)

\* number of request slots that may be in flight at the same time
MaxRequests == 2

(* ---------------------------------------------------------------------- *)
(* Program constants                                                      *)
(* ---------------------------------------------------------------------- *)

\* limits.fileSize handed to multer
FileSizeLimit == 1 * 1024 * 1024

\* the allow-list of declared MIME types
allowedMimeTypes ==
    { "image/jpeg", "image/png", "image/gif", "text/plain", "application/pdf",
      "application/msword",
      "application/vnd.openxmlformats-officedocument.wordprocessingml.document",
      "application/vnd.ms-excel",
      "application/vnd.openxmlformats-officedocument.spreadsheetml.sheet",
      "audio/mpeg", "video/mp4" }

\* the value of a JavaScript binding that holds undefined
Undefined == [undefined |-> TRUE]

(* ---------------------------------------------------------------------- *)
(* fileTypeFromBuffer: binary signature detection of the file-type module *)
(* ---------------------------------------------------------------------- *)

\* A buffer is [bytes |-> leading bytes, length |-> total byte length].
\* The signatures of the binary formats that file-type recognises among
\* the inputs of the model; the module has no entry for text formats.
Signatures ==
    << [sig |-> <<255, 216, 255>>,                  offset |-> 0, ext |-> "jpg", mime |-> "image/jpeg"],
       [sig |-> <<137, 80, 78, 71, 13, 10, 26, 10>>, offset |-> 0, ext |-> "png", mime |-> "image/png"],
       [sig |-> <<71, 73, 70>>,                     offset |-> 0, ext |-> "gif", mime |-> "image/gif"],
       [sig |-> <<37, 80, 68, 70>>,                 offset |-> 0, ext |-> "pdf", mime |-> "application/pdf"],
       [sig |-> <<73, 68, 51>>,                     offset |-> 0, ext |-> "mp3", mime |-> "audio/mpeg"],
       [sig |-> <<102, 116, 121, 112>>,             offset |-> 4, ext |-> "mp4", mime |-> "video/mp4"],
       [sig |-> <<80, 75, 3, 4>>,                   offset |-> 0, ext |-> "zip", mime |-> "application/zip"],
       [sig |-> <<208, 207, 17, 224, 161, 177, 26, 225>>, offset |-> 0, ext |-> "cfb", mime |-> "application/x-cfb"] >>

\* does the buffer carry signature e at its offset
SignatureMatches(buffer, e) ==
    /\ buffer.length >= e.offset + Len(e.sig)
    /\ Len(buffer.bytes) >= e.offset + Len(e.sig)
    /\ \A k \in 1..Len(e.sig) : buffer.bytes[e.offset + k] = e.sig[k]

\* the result the promise of fileTypeFromBuffer(buffer) resolves with:
\* {ext, mime} of the first matching signature, or undefined
fileTypeFromBuffer(buffer) ==
    LET hits == { n \in 1..Len(Signatures) : SignatureMatches(buffer, Signatures[n]) }
    IN  IF hits = {} THEN Undefined
        ELSE LET first == CHOOSE n \in hits : \A m \in hits : n <= m
             IN  [ext |-> Signatures[first].ext, mime |-> Signatures[first].mime]

(* ---------------------------------------------------------------------- *)
(* Requests the clients may send                                          *)
(* ---------------------------------------------------------------------- *)

JpegBytes   == <<255, 216, 255, 224>>
TextBytes   == <<72, 105, 33, 10>>
BinaryBytes == <<0, 1, 2, 3>>

SampleBytes == { JpegBytes, TextBytes, BinaryBytes }

SampleTypes == { "image/jpeg", "text/plain", "application/x-msdownload" }

\* multipart bodies carrying one file in the field 'upfile'
FileForms ==
    { [kind |-> "file", originalname |-> "photo.jpg", mimetype |-> t,
       bytes |-> b, length |-> n] :
         t \in SampleTypes, b \in SampleBytes,
         n \in { 4, FileSizeLimit, FileSizeLimit + 1 } }

\* a well-formed multipart body without a file, and an undecodable body
OtherForms ==
    { [kind |-> k, originalname |-> "", mimetype |-> "", bytes |-> <<>>, length |-> 0] :
         k \in { "nofile", "malformed" } }

Forms == FileForms \cup OtherForms

(* ---------------------------------------------------------------------- *)
(* State                                                                  *)
(* ---------------------------------------------------------------------- *)

VARIABLES
    boot,            \* position of the start-up script
    fileTypeModule,  \* what import('file-type') resolved with
    routes,          \* the routes and middleware registered on app after the import
    listener,        \* TRUE once app.listen has been called
    exitCode,        \* the code of process.exit, -1 while the process runs
    expressMajor,    \* major version of the installed express (4 or 5)
    busboyMajor,     \* major version of the busboy parser the installed multer uses (0 or 1)
    reqs             \* the request slots

vars == << boot, fileTypeModule, routes, listener, exitCode, expressMajor, busboyMajor, reqs >>

Slots == 1..MaxRequests

IdleRequest ==
    [ pc |-> "idle", form |-> Undefined, file |-> Undefined,
      handlerEntered |-> FALSE, sniffCalls |-> 0,
      fileTypeResult |-> Undefined, res |-> << >> ]

Init ==
    /\ boot = "importing"
    /\ fileTypeModule = Undefined
    /\ routes = << >>
    /\ listener = FALSE
    /\ exitCode = -1
    /\ expressMajor \in {4, 5}
    /\ busboyMajor \in {0, 1}
    /\ reqs = [i \in Slots |-> IdleRequest]


(* ---------------------------------------------------------------------- *)
(* Start-up: import('file-type').then(...).catch(...)                     *)
(* ---------------------------------------------------------------------- *)

\* the dynamic import settles: it resolves with a module namespace that
\* exports fileTypeFromBuffer or does not
ImportResolves ==
    /\ boot = "importing"
    /\ \E exported \in BOOLEAN :
          fileTypeModule' = [fileTypeFromBuffer |-> exported]
    /\ boot' = "then"
    /\ UNCHANGED << routes, listener, exitCode, expressMajor, busboyMajor, reqs >>

\* the dynamic import rejects: the catch callback logs and exits with 1
ImportRejects ==
    /\ boot = "importing"
    /\ boot' = "exited"
    /\ exitCode' = 1
    /\ UNCHANGED << fileTypeModule, routes, listener, expressMajor, busboyMajor, reqs >>

\* CheckExport without its process.exit(1): the callback goes on to register
\* the routes although the export is undefined
CheckExportNoExit ==
    /\ boot = "then"
    /\ boot' = "checked"
    /\ UNCHANGED << fileTypeModule, routes, listener, exitCode, expressMajor, busboyMajor, reqs >>

\* first statement of the then callback: exit when the export is undefined
CheckExport ==
    /\ boot = "then"
    /\ IF fileTypeModule.fileTypeFromBuffer
          THEN boot' = "checked" /\ UNCHANGED exitCode
          ELSE boot' = "exited" /\ exitCode' = 1
    /\ UNCHANGED << fileTypeModule, routes, listener, expressMajor, busboyMajor, reqs >>

\* app.post('/api/fileanalyse', upload.single('upfile'), handler)
RegisterRoute ==
    /\ boot = "checked"
    /\ routes' = Append(routes, "POST /api/fileanalyse")
    /\ boot' = "routed"
    /\ UNCHANGED << fileTypeModule, listener, exitCode, expressMajor, busboyMajor, reqs >>

\* app.use((err, req, res, next) => ...)
RegisterErrorHandler ==
    /\ boot = "routed"
    /\ routes' = Append(routes, "errorHandler")
    /\ boot' = "handled"
    /\ UNCHANGED << fileTypeModule, listener, exitCode, expressMajor, busboyMajor, reqs >>

\* app.listen(port, ...)
Listen ==
    /\ boot = "handled"
    /\ listener' = TRUE
    /\ boot' = "listening"
    /\ UNCHANGED << fileTypeModule, routes, exitCode, expressMajor, busboyMajor, reqs >>

(* ---------------------------------------------------------------------- *)
(* Middleware and handler of POST /api/fileanalyse                        *)
(* ---------------------------------------------------------------------- *)

\* res.status(status).send(body) / res.json(body): one more response on r
Send(r, status, body) ==
    [r EXCEPT !.res = Append(@, [status |-> status, body |-> body]),
              !.pc = "responded"]

\* the parser under multer stops a file part at limits.fileSize: busboy 0.x
\* (multer up to 1.4.4) once more than the limit has arrived, busboy 1.x
\* (multer 1.4.5-lts and 2.x) as soon as the limit itself is reached
FileLimitReached(length) ==
    IF busboyMajor >= 1 THEN length >= FileSizeLimit ELSE length > FileSizeLimit

\* upload.single('upfile') with memoryStorage and limits.fileSize: the error
\* it passes to next, or the req.file it leaves behind
upload(form) ==
    IF form.kind = "malformed"
       THEN [err |-> [name |-> "Error", message |-> "Unexpected end of form"],
             file |-> Undefined]
    ELSE IF form.kind = "nofile"
       THEN [err |-> Undefined, file |-> Undefined]
    ELSE IF FileLimitReached(form.length)
       THEN [err |-> [name |-> "MulterError", message |-> "File too large"],
             file |-> Undefined]
    ELSE [err |-> Undefined,
          file |-> [originalname |-> form.originalname,
                    mimetype     |-> form.mimetype,
                    size         |-> form.length,
                    buffer       |-> [bytes |-> form.bytes, length |-> form.length]]]

\* the error-handling middleware
errorHandler(r, err) ==
    IF err.name = "MulterError"
       THEN Send(r, 400, [error |-> err.message])
       ELSE Send(r, 500, [error |-> "An unknown error occurred while uploading the file."])

\* what express does with the rejected promise of an async handler: version 5
\* passes the reason to next, version 4 drops it and nothing answers
HandlerRejected(r, err) ==
    IF expressMajor >= 5
       THEN errorHandler(r, err)
       ELSE [r EXCEPT !.pc = "unhandled"]

\* fileanalyse with the allow-list test after the call of the sniffer
fileanalyseSniffFirst(r) ==
    LET entered == [r EXCEPT !.handlerEntered = TRUE] IN
    IF r.file = Undefined
       THEN HandlerRejected(entered, [name |-> "TypeError",
                                      message |-> "Cannot destructure property of undefined"])
    ELSE IF r.file.mimetype \notin allowedMimeTypes
       THEN Send([entered EXCEPT !.sniffCalls = @ + 1], 400, [text |-> "Invalid file type"])
    ELSE [entered EXCEPT !.sniffCalls = @ + 1, !.pc = "await"]

\* the handler from its first statement to its await
fileanalyse(r) ==
    LET entered == [r EXCEPT !.handlerEntered = TRUE] IN
    IF r.file = Undefined
       THEN \* destructuring req.file throws a TypeError
            HandlerRejected(entered, [name |-> "TypeError",
                                      message |-> "Cannot destructure property of undefined"])
    ELSE IF r.file.mimetype \notin allowedMimeTypes
       THEN Send(entered, 400, [text |-> "Invalid file type"])
    ELSE [entered EXCEPT !.sniffCalls = @ + 1, !.pc = "await"]

\* fileanalyseResume without the comparison of the detected with the
\* declared type
fileanalyseResumeNoCompare(r) ==
    LET type == r.file.mimetype
        fileTypeResult == fileTypeFromBuffer(r.file.buffer)
        resumed == [r EXCEPT !.fileTypeResult = fileTypeResult]
    IN  IF fileTypeResult # Undefined
           THEN Send(resumed, 200, [name |-> r.file.originalname,
                                    type |-> type,
                                    size |-> r.file.size])
           ELSE Send(resumed, 400,
                     [text |-> "Unable to determine the file type from the content"])

\* fileanalyseResume with an undefined result falling into the mismatch branch
fileanalyseResumeNoUndefinedBranch(r) ==
    LET type == r.file.mimetype
        fileTypeResult == fileTypeFromBuffer(r.file.buffer)
        resumed == [r EXCEPT !.fileTypeResult = fileTypeResult]
    IN  IF fileTypeResult # Undefined /\ fileTypeResult.mime = type
           THEN Send(resumed, 200, [name |-> r.file.originalname,
                                    type |-> type,
                                    size |-> r.file.size])
           ELSE Send(resumed, 400, [text |-> "File content does not match MIME type"])

\* fileanalyseResume with type held in a binding of the module instead of the
\* handler: after the await it holds the type of the request that entered the
\* handler last (here: of the other suspended request, when there is one)
fileanalyseResumeSharedType(r) ==
    LET others == { j \in Slots : reqs[j].pc = "await" /\ reqs[j] # r }
        type == IF others = {} THEN r.file.mimetype
                ELSE reqs[CHOOSE j \in others : TRUE].file.mimetype
        fileTypeResult == fileTypeFromBuffer(r.file.buffer)
        resumed == [r EXCEPT !.fileTypeResult = fileTypeResult]
    IN  IF fileTypeResult # Undefined
           THEN LET mimeTypeFromBuffer == fileTypeResult.mime IN
                IF mimeTypeFromBuffer = "" \/ mimeTypeFromBuffer # type
                   THEN Send(resumed, 400, [text |-> "File content does not match MIME type"])
                   ELSE Send(resumed, 200, [name |-> r.file.originalname,
                                            type |-> type,
                                            size |-> r.file.size])
           ELSE Send(resumed, 400,
                     [text |-> "Unable to determine the file type from the content"])

\* the handler after its await
fileanalyseResume(r) ==
    LET type == r.file.mimetype
        fileTypeResult == fileTypeFromBuffer(r.file.buffer)
        resumed == [r EXCEPT !.fileTypeResult = fileTypeResult]
    IN  IF fileTypeResult # Undefined
           THEN LET mimeTypeFromBuffer == fileTypeResult.mime IN
                IF mimeTypeFromBuffer = "" \/ mimeTypeFromBuffer # type
                   THEN Send(resumed, 400, [text |-> "File content does not match MIME type"])
                   ELSE Send(resumed, 200, [name |-> r.file.originalname,
                                            type |-> type,
                                            size |-> r.file.size])
           ELSE Send(resumed, 400,
                     [text |-> "Unable to determine the file type from the content"])

(* ---------------------------------------------------------------------- *)
(* Life of a request                                                      *)
(* ---------------------------------------------------------------------- *)

\* a client posts a form to /api/fileanalyse of the listening server
Request(i) ==
    /\ listener
    /\ reqs[i].pc = "idle"
    /\ \E form \in Forms :
          reqs' = [reqs EXCEPT ![i] = [@ EXCEPT !.pc = "received", !.form = form]]
    /\ UNCHANGED << boot, fileTypeModule, routes, listener, exitCode, expressMajor, busboyMajor >>

\* multer fails and calls next(err): the route handler is skipped and the
\* error-handling middleware answers
UploadFails(i) ==
    /\ reqs[i].pc = "received"
    /\ upload(reqs[i].form).err # Undefined
    /\ reqs' = [reqs EXCEPT ![i] = errorHandler(reqs[i], upload(reqs[i].form).err)]
    /\ UNCHANGED << boot, fileTypeModule, routes, listener, exitCode, expressMajor, busboyMajor >>

\* multer calls next(): the route handler runs up to its await
UploadDone(i) ==
    /\ reqs[i].pc = "received"
    /\ upload(reqs[i].form).err = Undefined
    /\ reqs' = [reqs EXCEPT ![i] =
                   fileanalyse([reqs[i] EXCEPT !.file = upload(reqs[i].form).file])]
    /\ UNCHANGED << boot, fileTypeModule, routes, listener, exitCode, expressMajor, busboyMajor >>

\* the promise of fileTypeFromBuffer resolves and the handler continues
SniffResolves(i) ==
    /\ reqs[i].pc = "await"
    /\ reqs' = [reqs EXCEPT ![i] = fileanalyseResume(reqs[i])]
    /\ UNCHANGED << boot, fileTypeModule, routes, listener, exitCode, expressMajor, busboyMajor >>

Next ==
    \/ ImportResolves
    \/ ImportRejects
    \/ CheckExport
    \/ RegisterRoute
    \/ RegisterErrorHandler
    \/ Listen
    \/ \E i \in Slots : Request(i)
    \/ \E i \in Slots : UploadFails(i)
    \/ \E i \in Slots : UploadDone(i)
    \/ \E i \in Slots : SniffResolves(i)

Spec == Init /\ [][Next]_vars

TypeOK ==
    /\ boot \in { "importing", "then", "checked", "routed", "handled", "listening", "exited" }
    /\ listener \in BOOLEAN
    /\ exitCode \in { -1, 1 }
    /\ expressMajor \in { 4, 5 }
    /\ busboyMajor \in { 0, 1 }
    /\ \A i \in Slots :
          /\ reqs[i].pc \in { "idle", "received", "await", "responded", "unhandled" }
          /\ reqs[i].form \in Forms \cup { Undefined }
          /\ reqs[i].sniffCalls \in 0..1

(* ---------------------------------------------------------------------- *)
(* Vocabulary of the properties                                           *)
(* ---------------------------------------------------------------------- *)

InvalidFileType   == [status |-> 400, body |-> [text |-> "Invalid file type"]]
TypeMismatch      == [status |-> 400, body |-> [text |-> "File content does not match MIME type"]]
TypeUndetermined  == [status |-> 400, body |-> [text |-> "Unable to determine the file type from the content"]]
PayloadTooLarge   == [status |-> 400, body |-> [error |-> "File too large"]]
UnknownError      == [status |-> 500, body |-> [error |-> "An unknown error occurred while uploading the file."]]

Success(form) ==
    [status |-> 200,
     body |-> [name |-> form.originalname, type |-> form.mimetype, size |-> form.length]]

\* the content a client sent, as the sniffer would see it
ContentOf(form) == [bytes |-> form.bytes, length |-> form.length]

\* the request has left the pipeline: answered, or dropped without an answer
Terminal(r) == r.pc \in { "responded", "unhandled" }

\* the receiver produced an uploaded file for the request
Uploaded(r) == r.pc # "idle" /\ r.file # Undefined

\* printable US-ASCII text with tabs and line ends
IsPlainText(bytes) ==
    /\ Len(bytes) > 0
    /\ \A k \in 1..Len(bytes) : bytes[k] \in (32..126) \cup { 9, 10, 13 }

\* no binary signature of the sniffer's table matches
NoSignature(buffer) ==
    \A n \in 1..Len(Signatures) : ~ SignatureMatches(buffer, Signatures[n])

(* ---------------------------------------------------------------------- *)
(* C1                                                                     *)
(* ---------------------------------------------------------------------- *)

\* C1: a request is answered with 200 and {name, type, size} only if its
\* declared type is in the allow-list, the sniffer detected a type, and the
\* detected MIME string equals the declared one exactly.
C1_SuccessOnlyWhenValid ==
    \A i \in Slots : \A k \in 1..Len(reqs[i].res) :
        reqs[i].res[k].status = 200 =>
            /\ reqs[i].form.kind = "file"
            /\ reqs[i].form.mimetype \in allowedMimeTypes
            /\ reqs[i].sniffCalls = 1
            /\ fileTypeFromBuffer(ContentOf(reqs[i].form)) # Undefined
            /\ fileTypeFromBuffer(ContentOf(reqs[i].form)).mime = reqs[i].form.mimetype
            /\ reqs[i].res[k] = Success(reqs[i].form)

C1_Witness ==
    \E i \in Slots :
        /\ reqs[i].pc = "responded"
        /\ reqs[i].res = << Success(reqs[i].form) >>
        /\ reqs[i].form.mimetype = "image/jpeg"
        /\ reqs[i].form.bytes = JpegBytes

(* ---------------------------------------------------------------------- *)
(* C2                                                                     *)
(* ---------------------------------------------------------------------- *)

\* C2: an uploaded file whose declared type is not in the allow-list is
\* answered with 400 'Invalid file type' whatever its content, and the
\* sniffer is never called for that request.
C2_GateBeforeSniffer ==
    \A i \in Slots :
        (Uploaded(reqs[i]) /\ reqs[i].file.mimetype \notin allowedMimeTypes) =>
            /\ reqs[i].sniffCalls = 0
            /\ reqs[i].pc = "responded"
            /\ reqs[i].res = << InvalidFileType >>

C2_Witness ==
    \E i \in Slots :
        /\ Uploaded(reqs[i])
        /\ reqs[i].file.mimetype = "application/x-msdownload"
        /\ reqs[i].file.buffer.bytes = JpegBytes
        /\ reqs[i].res = << InvalidFileType >>

(* ---------------------------------------------------------------------- *)
(* C3                                                                     *)
(* ---------------------------------------------------------------------- *)

\* C3: an uploaded file of an allow-listed declared type on which the sniffer
\* finds no signature is answered with 400 'Unable to determine the file type
\* from the content': never accepted, never reported as a mismatch.
C3_UndeterminedRejected ==
    \A i \in Slots :
        ( /\ Uploaded(reqs[i])
          /\ reqs[i].file.mimetype \in allowedMimeTypes
          /\ fileTypeFromBuffer(reqs[i].file.buffer) = Undefined ) =>
            /\ reqs[i].pc \in { "await", "responded" }
            /\ reqs[i].pc = "await" => reqs[i].res = << >>
            /\ reqs[i].pc = "responded" => reqs[i].res = << TypeUndetermined >>

C3_Witness ==
    \E i \in Slots :
        /\ Uploaded(reqs[i])
        /\ reqs[i].file.mimetype = "image/jpeg"
        /\ reqs[i].file.buffer.bytes = BinaryBytes
        /\ reqs[i].res = << TypeUndetermined >>

(* ---------------------------------------------------------------------- *)
(* C4                                                                     *)
(* ---------------------------------------------------------------------- *)

\* C4: a file declared image/jpeg whose content is plain text is answered
\* with 400 'File content does not match MIME type' (TypeMismatch), not with
\* TypeUndetermined.
C4_TextAsJpegIsMismatch ==
    \A i \in Slots :
        ( /\ Uploaded(reqs[i])
          /\ reqs[i].file.mimetype = "image/jpeg"
          /\ IsPlainText(reqs[i].file.buffer.bytes)
          /\ reqs[i].pc = "responded" ) =>
            reqs[i].res = << TypeMismatch >>

(* ---------------------------------------------------------------------- *)
(* C5                                                                     *)
(* ---------------------------------------------------------------------- *)

\* C5: content that matches no binary signature and is plausible text is
\* classified as plain text, so a text file declared text/plain within the
\* size ceiling is accepted with 200.
C5_PlainTextAccepted ==
    \A i \in Slots :
        ( /\ Uploaded(reqs[i])
          /\ reqs[i].file.mimetype = "text/plain"
          /\ NoSignature(reqs[i].file.buffer)
          /\ IsPlainText(reqs[i].file.buffer.bytes)
          /\ reqs[i].pc = "responded" ) =>
            reqs[i].res = << Success(reqs[i].form) >>

(* ---------------------------------------------------------------------- *)
(* C6                                                                     *)
(* ---------------------------------------------------------------------- *)

\* C6: every request that has left the pipeline was answered exactly once,
\* whatever it carried (no file, an oversize file, any validation outcome).
C6_ExactlyOneResponse ==
    \A i \in Slots : Terminal(reqs[i]) => Len(reqs[i].res) = 1

(* ---------------------------------------------------------------------- *)
(* C7                                                                     *)
(* ---------------------------------------------------------------------- *)

\* the request fails with one of the failures of the taxonomy
CoreFailure(form) ==
    \/ form.kind = "malformed"                                  \* MalformedMultipart
    \/ form.kind = "nofile"                                     \* MissingFile
    \/ form.kind = "file" /\ form.length > 1048576             \* PayloadTooLarge
    \/ form.kind = "file" /\ form.mimetype \notin allowedMimeTypes  \* InvalidDeclaredType
    \/ form.kind = "file" /\ fileTypeFromBuffer(ContentOf(form)) = Undefined  \* TypeUndetermined
    \/ form.kind = "file" /\ fileTypeFromBuffer(ContentOf(form)) # Undefined
                          /\ fileTypeFromBuffer(ContentOf(form)).mime # form.mimetype  \* TypeMismatch

\* C7: every failure of the taxonomy is answered with status 400; status 500
\* is only ever sent for faults that are none of them.
C7_CoreFailuresAre400 ==
    \A i \in Slots : \A k \in 1..Len(reqs[i].res) :
        CoreFailure(reqs[i].form) => reqs[i].res[k].status = 400

(* ---------------------------------------------------------------------- *)
(* C8                                                                     *)
(* ---------------------------------------------------------------------- *)

\* C8: with the ceiling of 1 MiB a file of exactly that size whose other
\* checks pass is accepted, and a file one byte larger is answered with 400
\* 'File too large' without reaching the declared-type gate or the sniffer.
C8_SizeBoundary ==
    \A i \in Slots :
        (reqs[i].pc \notin { "idle", "received" } /\ reqs[i].form.kind = "file") =>
            /\ ( /\ reqs[i].form.length = 1048576
                 /\ reqs[i].form.mimetype \in allowedMimeTypes
                 /\ fileTypeFromBuffer(ContentOf(reqs[i].form)) # Undefined
                 /\ fileTypeFromBuffer(ContentOf(reqs[i].form)).mime = reqs[i].form.mimetype
                 /\ reqs[i].pc = "responded" ) =>
                    reqs[i].res = << Success(reqs[i].form) >>
            /\ reqs[i].form.length = 1048576 + 1 =>
                    /\ reqs[i].res = << PayloadTooLarge >>
                    /\ ~ reqs[i].handlerEntered
                    /\ reqs[i].sniffCalls = 0
                    /\ reqs[i].file = Undefined

(* ---------------------------------------------------------------------- *)
(* C9                                                                     *)
(* ---------------------------------------------------------------------- *)

\* C9: the server listens only after the import resolved with
\* fileTypeFromBuffer available and after the upload route and the error
\* middleware were registered; when the import fails or the export is
\* undefined the process exits with code 1 and never listens.  No request is
\* accepted while the upload route is unregistered.
C9_ListenAfterRegistration ==
    /\ listener =>
          /\ fileTypeModule # Undefined
          /\ fileTypeModule.fileTypeFromBuffer
          /\ routes = << "POST /api/fileanalyse", "errorHandler" >>
          /\ exitCode = -1
    /\ (fileTypeModule # Undefined /\ ~ fileTypeModule.fileTypeFromBuffer) =>
          /\ ~ listener
          /\ routes = << >>
          /\ boot \in { "then", "exited" }
    /\ boot = "exited" => (exitCode = 1 /\ ~ listener)
    /\ exitCode = 1 => boot = "exited"
    /\ \A i \in Slots : reqs[i].pc # "idle" => listener

C9_Witness ==
    /\ listener
    /\ boot = "listening"
    /\ \E i \in Slots : reqs[i].pc = "received"

(* ---------------------------------------------------------------------- *)
(* C10                                                                    *)
(* ---------------------------------------------------------------------- *)

\* what the pipeline answers to a form when no other request is in flight
AnswerAlone(form) ==
    IF form.kind = "malformed" THEN << UnknownError >>
    ELSE IF form.kind = "nofile"
       THEN IF expressMajor >= 5 THEN << UnknownError >> ELSE << >>
    ELSE IF form.length > 1048576 \/ (busboyMajor >= 1 /\ form.length = 1048576)
       THEN << PayloadTooLarge >>
    ELSE IF form.mimetype \notin allowedMimeTypes THEN << InvalidFileType >>
    ELSE IF NoSignature(ContentOf(form)) THEN << TypeUndetermined >>
    ELSE IF fileTypeFromBuffer(ContentOf(form)).mime # form.mimetype THEN << TypeMismatch >>
    ELSE << Success(form) >>

=============================================================================
